---- MODULE Spec2Model ----
(***************************************************************************)
(* A model of PSL/packet_handler.py: the Handler class that talks to the   *)
(* PSLab over a serial transport.                                          *)
(*                                                                         *)
(* Two specifications share the variables:                                 *)
(*   Spec      the I/O layer of a constructed, connected Handler: _send,   *)
(*             _receive, get_ack, send_burst and the public load_burst     *)
(*             attribute, against a transport whose reads may come back    *)
(*             short (timeout) and whose peer may send any byte;           *)
(*   SpecConn  the connection layer: Handler.__init__, connect,            *)
(*             disconnect and reconnect against enumerated serial ports.   *)
(* Every action is one whole call of a method.  `call` and `io` describe   *)
(* the most recent call: its inputs, its result, and the transport calls   *)
(* it made, in order.                                                      *)
(***************************************************************************)
EXTENDS Integers, Sequences, FiniteSets, TLC

VARIABLES
    burst_buffer,      \* self.burst_buffer: the bytes queued in burst mode
    load_burst,        \* self.load_burst: the burst-mode flag
    input_queue_size,  \* self.input_queue_size: deferred acknowledgments
    version,           \* self.version, a sequence of characters
    interface,         \* self.interface: the current serial.Serial object
    fd,                \* self.fd: the backward-compatibility alias
    phase,             \* "init" before __init__, then "ready" or "failed", "deleted"
    enumerated,        \* the ports list_ports.grep enumerates, in order
    call,              \* the most recent call: name, inputs, result
    io,                \* the transport calls the most recent call made, in order
    batch              \* history: packets sent and acks deferred in burst mode
                       \* since the last send_burst

vars == <<burst_buffer, load_burst, input_queue_size, version, interface, fd,
          phase, enumerated, call, io, batch>>

burstVars == <<burst_buffer, load_burst, input_queue_size>>
connVars == <<version, interface, fd, phase>>

(***************************************************************************)
(* Bounds of the model.                                                    *)
(***************************************************************************)
MaxBuf == 3      \* bytes the burst buffer may hold
MaxAcks == 3     \* acknowledgments that may be deferred
MaxSize == 3     \* largest size passed to _receive

(***************************************************************************)
(* Acknowledgment codes (docstring of get_ack).                            *)
(***************************************************************************)
SUCCESS == 1
ARGUMENT_ERROR == 2
FAILED == 3

(***************************************************************************)
(* Bytes and the integer codec.                                            *)
(***************************************************************************)
RECURSIVE StructPack(_, _)
\* struct.Struct(...).pack(value) for the unsigned formats of CP.Byte,
\* CP.ShortInt and CP.Integer: `width` bytes, least significant first.
StructPack(value, width) ==
    IF width = 0 THEN <<>>
    ELSE <<value % 256>> \o StructPack(value \div 256, width - 1)

RECURSIVE StructFits(_, _)
\* struct raises struct.error when the value does not fit the format:
\* a non-negative value fits when nothing is left after `width` bytes.
StructFits(value, width) ==
    IF width = 0 THEN value = 0
    ELSE value >= 0 /\ StructFits(value \div 256, width - 1)

RECURSIVE StructUnpack(_)
\* struct.Struct(...).unpack(bytes)[0] for the same formats.
StructUnpack(bytes) ==
    IF bytes = <<>> THEN 0
    ELSE Head(bytes) + 256 * StructUnpack(Tail(bytes))

\* int.from_bytes(bytes=received, byteorder="little", signed=False)
IntFromBytesLittle(bytes) ==
    LET RECURSIVE Sum(_)
        Sum(i) == IF i > Len(bytes) THEN 0
                  ELSE bytes[i] * 256 ^ (i - 1) + Sum(i + 1)
    IN Sum(1)

\* Handler._get_integer_type: the sizes that have a struct.
IntegerTypeSizes == {1, 2, 4}

\* Python's bool as an int (True + True == 2, PEP 285).
BoolInt(b) == IF b THEN 1 ELSE 0

\* A slip: the boundaries 255 and 65535 fall on the wrong side.
AutoSizeInclusive(value) == 2 ^ (BoolInt(value >= 255) + BoolInt(value >= 65535))

\* The size _send chooses when none is given.
AutoSize(value) == 2 ^ (BoolInt(value > 255) + BoolInt(value > 65535))

(***************************************************************************)
(* Inputs.                                                                 *)
(***************************************************************************)
IntArg(v, s) == [kind |-> "int", v |-> v, bytes |-> <<>>, sized |-> TRUE, size |-> s]
AutoArg(v) == [kind |-> "int", v |-> v, bytes |-> <<>>, sized |-> FALSE, size |-> 0]
BytesArg(b) == [kind |-> "bytes", v |-> 0, bytes |-> b, sized |-> FALSE, size |-> 0]
NoArg == [kind |-> "none", v |-> 0, bytes |-> <<>>, sized |-> FALSE, size |-> 0]

SendInts == {255, 256, 65535, 65536}
SendSizes == {1, 2, 3, 4}
SendBytes == {<<7>>}
SendArgs ==
    {AutoArg(v) : v \in SendInts}
    \cup {IntArg(v, s) : v \in SendInts, s \in SendSizes}
    \cup {BytesArg(b) : b \in SendBytes}

\* Bytes the peer may send as an acknowledgment: SUCCESS, FAILED and one
\* byte that is no code.
AckBytes == {1, 3, 255}
\* Bytes the peer may send as data.
RxBytes == {1, 127}

RECURSIVE SeqsUpTo(_, _)
\* All sequences over S of length at most n.
SeqsUpTo(S, n) ==
    IF n = 0 THEN {<<>>}
    ELSE LET shorter == SeqsUpTo(S, n - 1)
         IN shorter \cup {Append(s, x) : s \in {t \in shorter : Len(t) = n - 1}, x \in S}

\* What interface.read(n) may return: at most n bytes, fewer on timeout.
ReadResults(S, n) == SeqsUpTo(S, n)

(***************************************************************************)
(* Transport calls, as recorded in io.                                     *)
(***************************************************************************)
Write(data) == [op |-> "write", n |-> Len(data), data |-> data]
Read(n, got) == [op |-> "read", n |-> n, data |-> got]

EmptyBatch == [sends |-> <<>>, acks |-> 0]

\* A call: its name and argument, the burst flag it found, what it returned
\* or raised, and (for send_burst) the batch it transmitted.
Call(name, arg, burst, ret, raised) ==
    [name |-> name, arg |-> arg, burst |-> burst, ret |-> ret, raised |-> raised,
     batch |-> EmptyBatch]

None == <<>>

(***************************************************************************)
(* Handler._send                                                           *)
(***************************************************************************)
\* A slip: the size is not checked, any number of bytes is packed.
PacketSizeUnchecked(arg) ==
    IF arg.kind = "bytes" THEN [raised |-> "none", packet |-> arg.bytes]
    ELSE LET size == IF arg.sized THEN arg.size ELSE AutoSize(arg.v)
         IN IF ~StructFits(arg.v, size)
            THEN [raised |-> "struct.error", packet |-> <<>>]
            ELSE [raised |-> "none", packet |-> StructPack(arg.v, size)]

\* The packet _send builds, or the exception it raises before any I/O.
Packet(arg) ==
    IF arg.kind = "bytes" THEN [raised |-> "none", packet |-> arg.bytes]
    ELSE LET size == IF arg.sized THEN arg.size ELSE AutoSize(arg.v)
         IN IF size \notin IntegerTypeSizes
            THEN [raised |-> "ValueError", packet |-> <<>>]
            ELSE IF ~StructFits(arg.v, size)
            THEN [raised |-> "struct.error", packet |-> <<>>]
            ELSE [raised |-> "none", packet |-> StructPack(arg.v, size)]

\* A slip: the packet is put in front of the buffer.
BurstPrepend(buffer, packet) == packet \o buffer

\* self.burst_buffer += packet
BurstAppend(buffer, packet) == buffer \o packet

\* The transport calls of _send outside burst mode.
SendDirect(packet) == <<Write(packet)>>

Send ==
    \E arg \in SendArgs :
        LET p == Packet(arg) IN
        /\ interface.is_open
        /\ call' = Call("send", arg, load_burst, None, p.raised)
        /\ IF p.raised # "none"
           THEN /\ io' = <<>>
                /\ UNCHANGED <<burst_buffer, batch>>
           ELSE IF load_burst
           THEN /\ Len(burst_buffer) + Len(p.packet) <= MaxBuf
                /\ burst_buffer' = BurstAppend(burst_buffer, p.packet)
                /\ batch' = [batch EXCEPT !.sends = Append(@, p.packet)]
                /\ io' = <<>>
           ELSE /\ io' = SendDirect(p.packet)
                /\ UNCHANGED <<burst_buffer, batch>>
        /\ UNCHANGED <<load_burst, input_queue_size, connVars, enumerated>>

(***************************************************************************)
(* Handler.get_ack                                                         *)
(***************************************************************************)
\* A slip: an empty response is reported as SUCCESS.
AckCodeOptimistic(response) ==
    IF Len(response) = 1 THEN StructUnpack(response) ELSE SUCCESS

\* A slip: an empty response is reported with the sentinel of _receive.
AckCodeSentinel(response) ==
    IF Len(response) = 1 THEN StructUnpack(response) ELSE -1

\* CP.Byte.unpack(response)[0], or 3 when unpack raises (no byte was read).
AckCode(response) ==
    IF Len(response) = 1 THEN StructUnpack(response) ELSE FAILED

\* The transport calls of get_ack outside burst mode.
AckRead(response) == <<Read(1, response)>>

\* self.input_queue_size += 1
AckDefer(n) == n + 1

get_ack ==
    /\ interface.is_open
    /\ IF ~load_burst
       THEN \E response \in ReadResults(AckBytes, 1) :
                /\ io' = AckRead(response)
                /\ call' = Call("get_ack", NoArg, FALSE, AckCode(response), "none")
                /\ UNCHANGED <<input_queue_size, batch>>
       ELSE /\ input_queue_size < MaxAcks
            /\ input_queue_size' = AckDefer(input_queue_size)
            /\ batch' = [batch EXCEPT !.acks = @ + 1]
            /\ io' = <<>>
            /\ call' = Call("get_ack", NoArg, TRUE, SUCCESS, "none")
    /\ UNCHANGED <<burst_buffer, load_burst, connVars, enumerated>>

(***************************************************************************)
(* Handler._receive                                                        *)
(***************************************************************************)
\* A slip: the length of what was read is not checked.
ReceivedUnchecked(size, received) ==
    IF size \in IntegerTypeSizes
    THEN StructUnpack(received)
    ELSE IntFromBytesLittle(received)

\* The value _receive returns for the bytes it read.
Received(size, received) ==
    IF Len(received) = size
    THEN IF size \in IntegerTypeSizes
         THEN StructUnpack(received)
         ELSE IntFromBytesLittle(received)
    ELSE -1

\* The transport calls of _receive.
ReceiveRead(size, received) == <<Read(size, received)>>

receive ==
    \E size \in 0 .. MaxSize :
        \E received \in ReadResults(RxBytes, size) :
            /\ interface.is_open
            /\ io' = ReceiveRead(size, received)
            /\ call' = Call("receive", IntArg(0, size), load_burst,
                            Received(size, received), "none")
            /\ UNCHANGED <<burstVars, batch, connVars, enumerated>>

(***************************************************************************)
(* Handler.send_burst                                                      *)
(***************************************************************************)
\* A slip: the acknowledgments are read before the buffer is written.
BurstIOReadFirst(buffer, n, acks) == <<Read(n, acks), Write(buffer)>>

\* The transport calls of send_burst: the buffer is written, then as many
\* bytes as acknowledgments were deferred are read.
BurstIO(buffer, n, acks) == <<Write(buffer), Read(n, acks)>>

\* list(acks)
BurstResult(acks) == acks

\* A slip: the counter is not reset.
BurstResetKeepsCounter(buffer, flag, n) ==
    [burst_buffer |-> <<>>, load_burst |-> FALSE, input_queue_size |-> n]

\* A slip: burst mode is not switched off.
BurstResetKeepsFlag(buffer, flag, n) ==
    [burst_buffer |-> <<>>, load_burst |-> flag, input_queue_size |-> 0]

\* The burst state send_burst leaves, given the state it found.
BurstReset(buffer, flag, n) ==
    [burst_buffer |-> <<>>, load_burst |-> FALSE, input_queue_size |-> 0]

send_burst ==
    \E acks \in ReadResults(AckBytes, input_queue_size) :
        /\ interface.is_open
        /\ io' = BurstIO(burst_buffer, input_queue_size, acks)
        /\ LET after == BurstReset(burst_buffer, load_burst, input_queue_size) IN
               /\ burst_buffer' = after.burst_buffer
               /\ load_burst' = after.load_burst
               /\ input_queue_size' = after.input_queue_size
        /\ call' = [Call("send_burst", NoArg, load_burst, BurstResult(acks), "none")
                        EXCEPT !.batch = batch]
        /\ batch' = EmptyBatch
        /\ UNCHANGED <<connVars, enumerated>>

(***************************************************************************)
(* The load_burst attribute is public: callers assign it.                  *)
(***************************************************************************)
set_load_burst ==
    \E flag \in BOOLEAN :
        /\ load_burst' = flag
        /\ call' = Call("set_load_burst", NoArg, load_burst, flag, "none")
        /\ io' = <<>>
        /\ UNCHANGED <<burst_buffer, input_queue_size, batch, connVars, enumerated>>

(***************************************************************************)
(* The flash methods.  Each of them calls self.send, and a Handler has no  *)
(* attribute of that name: the class defines _send and __init__ sets       *)
(* send_byte and send_int, so the lookup raises AttributeError before the  *)
(* method has touched the transport, the buffer or the counter.  What      *)
(* precedes the first self.send (padding, encoding, logging) is local.     *)
(***************************************************************************)
\* The names an attribute lookup on a Handler finds: the methods of the
\* class and the attributes __init__ sets.
HandlerAttributes ==
    {"connect", "disconnect", "reconnect", "get_version", "get_ack",
     "_list_ports", "_get_integer_type", "_send", "_receive", "wait_for_data",
     "send_burst", "read_flash", "read_bulk_flash", "write_flash",
     "write_bulk_flash", "burst_buffer", "load_burst", "input_queue_size",
     "version", "interface", "send_byte", "send_int", "get_byte", "get_int",
     "get_long", "fd", "occupiedPorts", "connected", "__sendByte__",
     "__sendInt__", "__get_ack__", "__getByte__", "__getInt__", "__getLong__",
     "WaitForData", "SendBurst", "portname", "listPorts"}

\* self.<name>: what the lookup raises.
Lookup(name) == IF name \in HandlerAttributes THEN "none" ELSE "AttributeError"

\* The arguments of a flash call: the page, a location or a number of bytes,
\* and the text or data to write.
FlashArg(page, n, data) ==
    [kind |-> "flash", v |-> page, bytes |-> data, sized |-> TRUE, size |-> n]

\* n bytes of text or data; byte i is i.
Payload(n) == [i \in 1 .. n |-> i]

FlashPages == {1}
FlashLocations == {0, 63}
\* Numbers of bytes to read in bulk: an even and an odd one.
BulkSizes == {4, 5}
\* Lengths of the text of write_flash: shorter than, equal to and longer
\* than a slot.
TextLengths == {3, 16, 17}
\* Lengths of the data of write_bulk_flash: an even and an odd one.
DataLengths == {2, 3}

read_flash ==
    \E page \in FlashPages, location \in FlashLocations :
        /\ Lookup("send") = "AttributeError"
        /\ call' = Call("read_flash", FlashArg(page, location, <<>>), load_burst,
                        None, Lookup("send"))
        /\ io' = <<>>
        /\ UNCHANGED <<burstVars, batch, connVars, enumerated>>

read_bulk_flash ==
    \E page \in FlashPages, numbytes \in BulkSizes :
        /\ Lookup("send") = "AttributeError"
        /\ call' = Call("read_bulk_flash", FlashArg(page, numbytes, <<>>),
                        load_burst, None, Lookup("send"))
        /\ io' = <<>>
        /\ UNCHANGED <<burstVars, batch, connVars, enumerated>>

write_flash ==
    \E page \in FlashPages, location \in FlashLocations, n \in TextLengths :
        /\ Lookup("send") = "AttributeError"
        /\ call' = Call("write_flash", FlashArg(page, location, Payload(n)),
                        load_burst, None, Lookup("send"))
        /\ io' = <<>>
        /\ UNCHANGED <<burstVars, batch, connVars, enumerated>>

write_bulk_flash ==
    \E page \in FlashPages, n \in DataLengths :
        /\ Lookup("send") = "AttributeError"
        /\ call' = Call("write_bulk_flash", FlashArg(page, n, Payload(n)),
                        load_burst, None, Lookup("send"))
        /\ io' = <<>>
        /\ UNCHANGED <<burstVars, batch, connVars, enumerated>>

(***************************************************************************)
(* Strings are sequences of characters.                                    *)
(***************************************************************************)
\* expected in version
Contains(s, t) ==
    \E i \in 0 .. (Len(s) - Len(t)) : SubSeq(s, i + 1, i + Len(t)) = t

PSLabMarker == <<"P", "S", "L", "a", "b">>
CSparkMarker == <<"C", "S", "p", "a", "r", "k">>

\* any(expected in version for expected in ["PSLab", "CSpark"])
Recognized(v) == Contains(v, PSLabMarker) \/ Contains(v, CSparkMarker)

(***************************************************************************)
(* Spec: the I/O layer of a connected Handler.                             *)
(***************************************************************************)
DefaultBaudrate == 1000000
DefaultTimeout == 1

Init ==
    /\ burst_buffer = <<>>
    /\ load_burst = FALSE
    /\ input_queue_size = 0
    /\ version = PSLabMarker
    /\ interface = [port |-> "p3", is_open |-> TRUE, baudrate |-> DefaultBaudrate,
                    timeout |-> DefaultTimeout]
    /\ fd = [ref |-> "interface",
             obj |-> [port |-> "None", is_open |-> FALSE, baudrate |-> 0, timeout |-> 0]]
    /\ phase = "ready"
    /\ enumerated = <<"p3">>
    /\ call = Call("init", NoArg, FALSE, None, "none")
    /\ io = <<>>
    /\ batch = EmptyBatch

Next ==
    \/ Send
    \/ get_ack
    \/ receive
    \/ send_burst
    \/ set_load_burst
    \/ read_flash
    \/ read_bulk_flash
    \/ write_flash
    \/ write_bulk_flash

Spec == Init /\ [][Next]_vars

(***************************************************************************)
(* The connection layer.                                                   *)
(*                                                                         *)
(* A serial.Serial object is a record; a port of "None" is no port.  The   *)
(* handler refers to Serial objects by self.interface and by self.fd,      *)
(* which is either unset, the same object as self.interface ("interface")  *)
(* or an older object ("other", kept in fd.obj).  An object no attribute   *)
(* refers to any more is finalised at once (reference counting), and       *)
(* finalising a Serial object closes it (io.IOBase.__del__).               *)
(* In SpecConn io records the opens, closes and handshakes of a call.      *)
(***************************************************************************)
NoPort == "None"
NoBaudrate == 0        \* baudrate=None of reconnect
NoTimeout == 0         \* timeout=None of reconnect and of serial.Serial()
SerialDefaultBaudrate == 9600   \* the baudrate of serial.Serial()
\* A baudrate and a timeout a caller may pass instead of the defaults.
OtherSetting == <<115200, 2>>

Ports == {"p1", "p2", "p3"}

\* What the device on each port answers to the version query (readline,
\* decoded): p1 an answer without a marker, p2 nothing at all (a timeout),
\* p3 an answer with a marker.
DeviceReply(port) ==
    CASE port = "p1" -> <<"C", "S", "p", "a", "r">>
      [] port = "p2" -> <<>>
      [] port = "p3" -> <<"P", "S", "L", "a", "b", "5">>

MaxCandidates == 3

\* The ports in the order list_ports enumerates them when all are present.
PortOrder == <<"p1", "p2", "p3">>

RECURSIVE Present(_, _)
\* The ports of `order` that are in `present`, in that order.
Present(order, present) ==
    IF order = <<>> THEN <<>>
    ELSE (IF Head(order) \in present THEN <<Head(order)>> ELSE <<>>)
         \o Present(Tail(order), present)

\* What list_ports.grep may enumerate: the matching ports that are present.
Enumerations ==
    {Present(PortOrder, present) :
        present \in {P \in SUBSET Ports : Cardinality(P) <= MaxCandidates}}

\* serial.Serial(port=..., baudrate=..., timeout=...): open iff a port is given.
Serial(port, baudrate, timeout) ==
    [port |-> port, is_open |-> port # NoPort, baudrate |-> baudrate,
     timeout |-> timeout]

Opened(port, baudrate, timeout) ==
    [op |-> "open", port |-> port, baudrate |-> baudrate, timeout |-> timeout]
Closed(obj) ==
    [op |-> "close", port |-> obj.port, baudrate |-> NoBaudrate,
     timeout |-> NoTimeout]
Handshake(obj) ==
    [op |-> "handshake", port |-> obj.port, baudrate |-> obj.baudrate,
     timeout |-> obj.timeout]

\* The events of closing obj: none when it is not open.
CloseEvents(obj) == IF obj.is_open THEN <<Closed(obj)>> ELSE <<>>
\* The events of constructing obj.
OpenEvents(obj) ==
    IF obj.is_open THEN <<Opened(obj.port, obj.baudrate, obj.timeout)>> ELSE <<>>

FdUnset == [ref |-> "unset", obj |-> Serial(NoPort, NoBaudrate, NoTimeout)]
FdInterface == [ref |-> "interface", obj |-> Serial(NoPort, NoBaudrate, NoTimeout)]
FdOther(obj) == [ref |-> "other", obj |-> obj]

\* The handler's connection state.
Handler(i, f, v) == [interface |-> i, fd |-> f, version |-> v]

\* self.interface = new: the object self.interface referred to lives on if
\* self.fd refers to it, and is finalised (closed) otherwise.
AssignInterface(h, new) ==
    IF h.fd.ref = "interface"
    THEN [h |-> Handler(new, FdOther(h.interface), h.version), log |-> <<>>]
    ELSE [h |-> Handler(new, h.fd, h.version), log |-> CloseEvents(h.interface)]

\* self.fd = self.interface: the object self.fd referred to is finalised.
AssignFd(h) ==
    IF h.fd.ref = "other"
    THEN [h |-> [h EXCEPT !.fd = FdInterface], log |-> CloseEvents(h.fd.obj)]
    ELSE [h |-> [h EXCEPT !.fd = FdInterface], log |-> <<>>]

\* Handler.get_version: the answer of the device the interface is open on.
GetVersion(obj) == DeviceReply(obj.port)

\* serial.Serial's port setter: an open object is closed, given the new
\* port and opened again; a closed one is only given the new port.
SetPort(obj, port) ==
    [obj |-> [obj EXCEPT !.port = port],
     log |-> IF obj.is_open
             THEN <<Closed(obj), Opened(port, obj.baudrate, obj.timeout)>>
             ELSE <<>>]

RECURSIVE Autodetect(_, _, _)
\* The loop of connect over the enumerated ports: for each, set the port,
\* open, get the version, and stop when it is recognized; serial.Serial.open
\* raises SerialException("Port is already open.") on an open object.  When
\* the loop ends without a break the version is "".
Autodetect(obj, candidates, log) ==
    IF candidates = <<>>
    THEN [obj |-> obj, version |-> <<>>, raised |-> "none", log |-> log]
    ELSE LET set == SetPort(obj, Head(candidates))
             log1 == log \o set.log
         IN IF set.obj.is_open
            THEN [obj |-> set.obj, version |-> <<>>, raised |-> "PortAlreadyOpen",
                  log |-> log1]
            ELSE LET opened == [set.obj EXCEPT !.is_open = TRUE]
                     log2 == log1 \o OpenEvents(opened) \o <<Handshake(opened)>>
                     v == GetVersion(opened)
                 IN IF Recognized(v)
                    THEN [obj |-> opened, version |-> v, raised |-> "none",
                          log |-> log2]
                    ELSE Autodetect(opened, Tail(candidates), log2)

\* Handler.connect: the handler state it leaves, what it raises, and the
\* opens, closes and handshakes it makes.
Connect(h, port, baudrate, timeout, candidates) ==
    LET new == Serial(port, baudrate, timeout)
        assigned == AssignInterface(h, new)
        log0 == OpenEvents(new) \o assigned.log
        found == IF new.is_open
                 THEN [obj |-> new, version |-> GetVersion(new), raised |-> "none",
                       log |-> log0 \o <<Handshake(new)>>]
                 ELSE Autodetect(new, candidates, log0)
        h1 == [assigned.h EXCEPT !.interface = found.obj]
    IN IF found.raised # "none"
       THEN [h |-> h1, raised |-> found.raised, log |-> found.log]
       ELSE IF Recognized(found.version)
       THEN LET kept == AssignFd([h1 EXCEPT !.version = found.version])
            IN [h |-> kept.h, raised |-> "none", log |-> found.log \o kept.log]
       ELSE [h |-> [h1 EXCEPT !.interface.is_open = FALSE, !.version = <<>>],
             raised |-> "DeviceNotFound",
             log |-> found.log \o CloseEvents(found.obj)]

\* Handler.disconnect: self.interface.close().
Disconnect(h) ==
    [h |-> [h EXCEPT !.interface.is_open = FALSE], log |-> CloseEvents(h.interface)]

\* The arguments reconnect passes to connect: none, so connect's defaults.
ReconnectConnectArgs(port, baudrate, timeout) ==
    [port |-> NoPort, baudrate |-> DefaultBaudrate, timeout |-> DefaultTimeout]

\* Handler.reconnect: disconnect, build a Serial object from the previous
\* settings and the given ones, then call connect.
Reconnect(h, port, baudrate, timeout, candidates) ==
    LET closed == Disconnect(h)
        b == IF baudrate = NoBaudrate THEN closed.h.interface.baudrate ELSE baudrate
        p == IF port = NoPort THEN closed.h.interface.port ELSE port
        t == IF timeout = NoTimeout THEN closed.h.interface.timeout ELSE timeout
        new == Serial(p, b, t)
        assigned == AssignInterface(closed.h, new)
        args == ReconnectConnectArgs(p, b, t)
        done == Connect(assigned.h, args.port, args.baudrate, args.timeout, candidates)
    IN [h |-> done.h, raised |-> done.raised,
        log |-> closed.log \o OpenEvents(new) \o assigned.log \o done.log]

\* A call of the connection layer: its name and arguments and what it raised.
ConnCall(name, port, baudrate, timeout, raised) ==
    [name |-> name, port |-> port, baudrate |-> baudrate, timeout |-> timeout,
     raised |-> raised]

\* The baudrate and timeout a caller passes to connect.
Settings == {<<DefaultBaudrate, DefaultTimeout>>, OtherSetting}

\* The handler state a call leaves.
Becomes(h) ==
    /\ interface' = h.interface
    /\ fd' = h.fd
    /\ version' = h.version

Here == Handler(interface, fd, version)

\* Handler.__init__: the attributes are set and connect is called; the
\* object exists for its caller only when connect returns.
construct ==
    \E port \in Ports \cup {NoPort}, setting \in Settings :
        \E r \in {Connect(Here, port, setting[1], setting[2], enumerated)} :
        /\ phase = "init"
        /\ Becomes(r.h)
        /\ phase' = IF r.raised = "none" THEN "ready" ELSE "failed"
        /\ call' = ConnCall("__init__", port, setting[1], setting[2], r.raised)
        /\ io' = r.log
        /\ UNCHANGED <<burstVars, batch, enumerated>>

connect ==
    \E port \in Ports \cup {NoPort}, setting \in Settings :
        \E r \in {Connect(Here, port, setting[1], setting[2], enumerated)} :
        /\ phase = "ready"
        /\ Becomes(r.h)
        /\ call' = ConnCall("connect", port, setting[1], setting[2], r.raised)
        /\ io' = r.log
        /\ UNCHANGED <<burstVars, batch, enumerated, phase>>

disconnect ==
    \E r \in {Disconnect(Here)} :
    /\ phase = "ready"
    /\ Becomes(r.h)
    /\ call' = ConnCall("disconnect", NoPort, NoBaudrate, NoTimeout, "none")
    /\ io' = r.log
    /\ UNCHANGED <<burstVars, batch, enumerated, phase>>

reconnect ==
    \E port \in Ports \cup {NoPort},
       baudrate \in {NoBaudrate, OtherSetting[1]},
       timeout \in {NoTimeout, OtherSetting[2]} :
        \E r \in {Reconnect(Here, port, baudrate, timeout, enumerated)} :
        /\ phase = "ready"
        /\ Becomes(r.h)
        /\ call' = ConnCall("reconnect", port, baudrate, timeout, r.raised)
        /\ io' = r.log
        /\ UNCHANGED <<burstVars, batch, enumerated, phase>>

\* Handler.__del__: self.interface.close(); the object self.fd refers to is
\* finalised with the handler.
del ==
    \E r \in {Disconnect(Here)} :
    /\ phase \in {"ready", "failed"}
    /\ Becomes([r.h EXCEPT !.fd.obj.is_open = FALSE])
    /\ phase' = "deleted"
    /\ call' = ConnCall("__del__", NoPort, NoBaudrate, NoTimeout, "none")
    /\ io' = r.log \o (IF fd.ref = "other" THEN CloseEvents(fd.obj) ELSE <<>>)
    /\ UNCHANGED <<burstVars, batch, enumerated>>

\* The environment: devices are plugged in and out between calls.
replug ==
    \E e \in Enumerations :
        /\ phase = "ready"
        /\ e # enumerated
        /\ enumerated' = e
        /\ call' = ConnCall("replug", NoPort, NoBaudrate, NoTimeout, "none")
        /\ io' = <<>>
        /\ UNCHANGED <<burstVars, batch, connVars>>

InitConn ==
    /\ burst_buffer = <<>>
    /\ load_burst = FALSE
    /\ input_queue_size = 0
    /\ version = <<>>
    /\ interface = Serial(NoPort, SerialDefaultBaudrate, NoTimeout)
    /\ fd = FdUnset
    /\ phase = "init"
    /\ enumerated \in Enumerations
    /\ call = ConnCall("none", NoPort, NoBaudrate, NoTimeout, "none")
    /\ io = <<>>
    /\ batch = EmptyBatch

NextConn ==
    \/ construct
    \/ connect
    \/ disconnect
    \/ reconnect
    \/ del
    \/ replug

SpecConn == InitConn /\ [][NextConn]_vars

(***************************************************************************)
(* Properties of the I/O layer.                                            *)
(***************************************************************************)
RECURSIVE Flatten(_)
\* The bytes of a sequence of packets, in order.
Flatten(packets) ==
    IF packets = <<>> THEN <<>>
    ELSE Head(packets) \o Flatten(Tail(packets))

\* The unsigned little-endian bytes of v in w bytes.
LittleEndian(v, w) == [i \in 1 .. w |-> (v \div 256 ^ (i - 1)) % 256]

\* The unsigned little-endian value of a byte sequence.
LittleEndianValue(bytes) ==
    LET RECURSIVE Upto(_)
        Upto(k) == IF k = 0 THEN 0
                   ELSE Upto(k - 1) + bytes[k] * 256 ^ (k - 1)
    IN Upto(Len(bytes))

\* The bytes a send that does not raise is to emit.
ExpectedPacket(arg) ==
    IF arg.kind = "bytes" THEN arg.bytes
    ELSE IF arg.sized THEN LittleEndian(arg.v, arg.size)
    ELSE IF arg.v <= 255 THEN LittleEndian(arg.v, 1)
    ELSE IF arg.v <= 65535 THEN LittleEndian(arg.v, 2)
    ELSE LittleEndian(arg.v, 4)

\* C1: send_burst, after n sends and n get_ack calls were issued in burst
\* mode since the previous send_burst, makes exactly two transport calls:
\* first one write of the n packets concatenated in the order of the sends,
\* then one read that requests exactly n bytes.
C1_BurstOneWriteThenOneRead ==
    (call.name = "send_burst" /\ Len(call.batch.sends) = call.batch.acks) =>
        /\ Len(io) = 2
        /\ io[1] = Write(Flatten(call.batch.sends))
        /\ io[2].op = "read"
        /\ io[2].n = call.batch.acks

\* C1 witness: a burst of three sends and three get_ack calls was flushed.
C1_Witness ==
    /\ call.name = "send_burst"
    /\ call.burst
    /\ Len(call.batch.sends) = 3
    /\ call.batch.acks = 3

\* C2: in burst mode send and get_ack make no transport call; a send that
\* returns appends exactly its packed bytes to the end of the buffer (one
\* that raises leaves it alone) and leaves the counter alone; get_ack
\* returns SUCCESS, adds exactly one to the counter and leaves the buffer.
C2_BurstDefersIO ==
    [][(load_burst /\ call'.name \in {"send", "get_ack"}) =>
        /\ io' = <<>>
        /\ (call'.name = "send") =>
              /\ input_queue_size' = input_queue_size
              /\ burst_buffer' =
                    IF call'.raised = "none"
                    THEN burst_buffer \o ExpectedPacket(call'.arg)
                    ELSE burst_buffer
        /\ (call'.name = "get_ack") =>
              /\ call'.ret = SUCCESS
              /\ call'.raised = "none"
              /\ input_queue_size' = input_queue_size + 1
              /\ burst_buffer' = burst_buffer]_vars

\* C2 witness: the second get_ack deferred in burst mode, after two bytes
\* were queued.
C2_Witness ==
    /\ load_burst
    /\ call.name = "get_ack"
    /\ call.burst
    /\ input_queue_size = 2
    /\ Len(burst_buffer) = 2
    /\ Len(batch.sends) = 2

\* C3 (as claimed): the sequence send_burst returns has as many elements as
\* get_ack calls were deferred, and they are the bytes the peer sent.
C3_AckListComplete ==
    (call.name = "send_burst") =>
        /\ Len(call.ret) = call.batch.acks
        /\ call.ret = io[2].data

\* C4 (as claimed): burst mode off implies an empty buffer and a zero counter.
C4_OffImpliesEmpty ==
    ~load_burst => (burst_buffer = <<>> /\ input_queue_size = 0)

\* C4 (amended): a state with burst mode off and a non-empty buffer or a
\* non-zero counter is entered only by assigning load_burst = False from
\* outside, which resets neither, and while burst mode stays off no call
\* changes either; send_burst always leaves both empty.
C4_OffNonEmptyOnlyByExternalOff ==
    [][(~load_burst' /\ (burst_buffer' # <<>> \/ input_queue_size' # 0)) =>
        /\ burst_buffer' = burst_buffer
        /\ input_queue_size' = input_queue_size
        /\ load_burst => call'.name = "set_load_burst"
        /\ call'.name # "send_burst"]_vars

\* C4 witness: send_burst has just emptied a non-empty buffer and counter.
C4_Witness ==
    /\ call.name = "send_burst"
    /\ call.burst
    /\ Len(call.batch.sends) > 0
    /\ call.batch.acks > 0
    /\ ~load_burst
    /\ burst_buffer = <<>>
    /\ input_queue_size = 0

\* C5: outside burst mode get_ack makes exactly one transport call, a read
\* of one byte, and does not raise; it returns FAILED when no byte came and
\* the value of the byte otherwise; buffer and counter are unchanged.
C5_AckReadsOneByte ==
    [][(~load_burst /\ call'.name = "get_ack") =>
        /\ Len(io') = 1
        /\ io'[1].op = "read"
        /\ io'[1].n = 1
        /\ call'.raised = "none"
        /\ (Len(io'[1].data) = 0) => call'.ret = FAILED
        /\ (Len(io'[1].data) = 1) => call'.ret = io'[1].data[1]
        /\ Len(io'[1].data) <= 1
        /\ burst_buffer' = burst_buffer
        /\ input_queue_size' = input_queue_size]_vars

\* C5 witness: get_ack outside burst mode timed out and returned FAILED.
C5_Witness ==
    /\ call.name = "get_ack"
    /\ ~call.burst
    /\ Len(io) = 1
    /\ io[1].data = <<>>
    /\ call.ret = FAILED

\* C6: receive(size) makes one transport call, a read of exactly size
\* bytes, and does not raise; it returns the unsigned little-endian value of
\* the bytes when size bytes came (whatever the size) and -1 when fewer came.
C6_ReceiveValueOrSentinel ==
    (call.name = "receive") =>
        /\ Len(io) = 1
        /\ io[1].op = "read"
        /\ io[1].n = call.arg.size
        /\ call.raised = "none"
        /\ call.ret = IF Len(io[1].data) = call.arg.size
                      THEN LittleEndianValue(io[1].data)
                      ELSE -1

\* C6 witness: three bytes (a size outside {1,2,4}) were requested and
\* obtained, the last of them not zero.
C6_Witness ==
    /\ call.name = "receive"
    /\ call.arg.size = 3
    /\ io[1].data = <<127, 1, 127>>
    /\ call.ret = 127 + 256 + 127 * 65536

(***************************************************************************)
(* Properties of the connection layer.                                     *)
(***************************************************************************)
RECURSIVE EventsOf(_, _)
\* The events of a log with the given op, in order.
EventsOf(log, op) ==
    IF log = <<>> THEN <<>>
    ELSE (IF Head(log).op = op THEN <<Head(log)>> ELSE <<>>)
         \o EventsOf(Tail(log), op)

\* The ports a log opens, in order.
OpenedPorts(log) ==
    LET opens == EventsOf(log, "open")
    IN [i \in 1 .. Len(opens) |-> opens[i].port]

\* The handler is connected: self.interface is open and is the object of the
\* last successful handshake (the one self.fd was set to).
Connected == interface.is_open /\ fd.ref = "interface"

\* Some Serial object the handler opened is open.
SomeEndpointOpen == interface.is_open \/ (fd.ref = "other" /\ fd.obj.is_open)

\* Candidate k is the only one whose answer holds a marker.
OnlyMatch(candidates, k) ==
    \A j \in 1 .. Len(candidates) :
        Recognized(DeviceReply(candidates[j])) <=> (j = k)

\* C7 (as claimed): connect without a port, when candidate k is the only
\* one that answers with a marker, succeeds with the transport open on
\* candidate k and version the answer of candidate k, having opened the
\* candidates 1..k in enumeration order and none after k.
C7_AutodetectStopsAtOnlyMatch ==
    (call.name \in {"__init__", "connect"} /\ call.port = NoPort) =>
        \A k \in 1 .. Len(enumerated) :
            OnlyMatch(enumerated, k) =>
                /\ call.raised = "none"
                /\ interface.is_open
                /\ interface.port = enumerated[k]
                /\ version = DeviceReply(enumerated[k])
                /\ OpenedPorts(io) = SubSeq(enumerated, 1, k)

\* C8 (as claimed): a connect or reconnect that fails raises DeviceNotFound
\* and leaves no endpoint open and the version empty; with an explicit port
\* connect makes exactly one handshake.
C8_FailedConnectClosesAll ==
    (call.name \in {"__init__", "connect", "reconnect"} /\ call.raised # "none") =>
        /\ call.raised = "DeviceNotFound"
        /\ ~SomeEndpointOpen
        /\ version = <<>>
        /\ (call.name # "reconnect" /\ call.port # NoPort) =>
              Len(EventsOf(io, "handshake")) = 1

\* C9 (as claimed): reconnect, called on a handler whose interface is the
\* one of a successful connect on port P with baudrate B and timeout T,
\* makes its handshake on the given port, baudrate and timeout, with P, B
\* and T for those left unspecified, and on no other endpoint.
C9_ReconnectReusesSettings ==
    [][(call'.name = "reconnect" /\ fd.ref = "interface") =>
        LET p == IF call'.port = NoPort THEN interface.port ELSE call'.port
            b == IF call'.baudrate = NoBaudrate THEN interface.baudrate
                 ELSE call'.baudrate
            t == IF call'.timeout = NoTimeout THEN interface.timeout
                 ELSE call'.timeout
            shakes == EventsOf(io', "handshake")
        IN /\ shakes # <<>>
           /\ \A i \in 1 .. Len(shakes) :
                 /\ shakes[i].port = p
                 /\ shakes[i].baudrate = b
                 /\ shakes[i].timeout = t]_vars

\* C10 (as claimed): on a constructed handler the version is non-empty and
\* holds a marker exactly when the handler is connected.
C10_VersionIffConnected ==
    (phase = "ready") =>
        ((version # <<>> /\ Recognized(version)) <=> Connected)

\* The number of Serial objects of the handler that are open.
OpenHandles ==
    BoolInt(interface.is_open) + BoolInt(fd.ref = "other" /\ fd.obj.is_open)

RECURSIVE MaxOpen(_, _)
\* The largest number of handles open at any point of a log of opens and
\* closes that starts with n handles open.
MaxOpen(log, n) ==
    IF log = <<>> THEN n
    ELSE LET m == CASE Head(log).op = "open" -> n + 1
                    [] Head(log).op = "close" -> n - 1
                    [] OTHER -> n
             rest == MaxOpen(Tail(log), m)
         IN IF rest > n THEN rest ELSE n

\* C11 (as claimed): at every point of every construction, connect,
\* disconnect and reconnect at most one handle the handler opened is open.
C11_AtMostOneHandleOpen ==
    [][(call'.name \in {"__init__", "connect", "disconnect", "reconnect"}) =>
        MaxOpen(io', OpenHandles) <= 1]_vars

(***************************************************************************)
(* Properties of the flash methods.                                        *)
(***************************************************************************)
\* The command tokens of PSL.commands_proto, one byte each.  Their values
\* are opaque; the model gives them distinct ones.
FLASH == <<201>>
READ_FLASH == <<202>>
WRITE_FLASH == <<203>>
WRITE_BULK_FLASH == <<204>>
READ_BULK_FLASH == <<205>>

FlashOps == {"read_flash", "read_bulk_flash", "write_flash", "write_bulk_flash"}

\* n rounded up to the nearest even number.
Even(n) == n + (n % 2)

\* The bytes the writes of a log hand to the transport, in order.
WrittenBytes(log) ==
    LET writes == EventsOf(log, "write")
    IN Flatten([i \in 1 .. Len(writes) |-> writes[i].data])

\* s begins with t.
StartsWith(s, t) == Len(s) >= Len(t) /\ SubSeq(s, 1, Len(t)) = t

\* The first n elements of s, or all of s when it has fewer.
Take(s, n) == SubSeq(s, 1, IF Len(s) < n THEN Len(s) ELSE n)

\* The command bytes a flash call is to emit before any payload.
CommandBytes(c) ==
    CASE c.name = "read_flash" ->
            FLASH \o READ_FLASH \o LittleEndian(c.arg.v, 1)
                  \o LittleEndian(c.arg.size, 1)
      [] c.name = "read_bulk_flash" ->
            FLASH \o READ_BULK_FLASH \o LittleEndian(Even(c.arg.size), 2)
                  \o LittleEndian(c.arg.v, 1)
      [] c.name = "write_flash" ->
            FLASH \o WRITE_FLASH \o LittleEndian(c.arg.v, 1)
                  \o LittleEndian(c.arg.size, 1)
      [] c.name = "write_bulk_flash" ->
            FLASH \o WRITE_BULK_FLASH \o LittleEndian(Even(c.arg.size), 2)
                  \o LittleEndian(c.arg.v, 1)

\* C12 (as claimed): write_bulk_flash(page, data) writes the data once,
\* then reads back the rounded length, and raises the verification error
\* exactly when the first len(data) bytes read back differ from data.
C12_WriteBulkVerifies ==
    (call.name = "write_bulk_flash" /\ ~call.burst) =>
        LET data == call.arg.bytes
            payloads == {i \in 1 .. Len(io) :
                            io[i].op = "write" /\ StartsWith(io[i].data, data)}
            readbacks == {j \in 1 .. Len(io) :
                            io[j].op = "read" /\ io[j].n = Even(Len(data))}
        IN /\ call.raised \in {"none", "RuntimeError"}
           /\ Cardinality(payloads) = 1
           /\ Cardinality(readbacks) = 1
           /\ \A i \in payloads, j \in readbacks :
                 /\ i < j
                 /\ (call.raised = "RuntimeError") <=>
                        (Take(io[j].data, Len(data)) # data)

\* C13 (as claimed): read_bulk_flash(page, numbytes) outside burst mode
\* writes FLASH, READ_BULK_FLASH, the even-rounded length in two bytes and
\* the page, reads exactly the rounded length, then reads the
\* acknowledgment, and returns the first numbytes bytes of what it read.
C13_ReadBulkRoundsAndTrims ==
    (call.name = "read_bulk_flash" /\ ~call.burst) =>
        LET reads == EventsOf(io, "read")
        IN /\ call.raised = "none"
           /\ WrittenBytes(io) = CommandBytes(call)
           /\ Len(reads) = 2
           /\ reads[1].n = Even(call.arg.size)
           /\ reads[2].n = 1
           /\ call.ret = Take(reads[1].data, call.arg.size)

\* C14 (as claimed): read_flash, read_bulk_flash and send_burst signal a
\* failure when one of their reads comes back short.  None of the three
\* has a sentinel, what they return is the bytes read, so a failure is an
\* exception.
C14_ShortReadIsFailure ==
    (/\ call.name \in {"read_flash", "read_bulk_flash", "send_burst"}
     /\ \E i \in 1 .. Len(io) : io[i].op = "read" /\ Len(io[i].data) < io[i].n)
        => call.raised # "none"

\* C17 (as claimed): in burst mode a flash call makes no transport call and
\* appends its bytes to the burst buffer, the command bytes first.
C17_FlashQueuesInBurstMode ==
    [][(load_burst /\ call'.name \in FlashOps) =>
        /\ io' = <<>>
        /\ StartsWith(burst_buffer', burst_buffer \o CommandBytes(call'))]_vars

\* C18 (as claimed): write_flash outside burst mode writes FLASH,
\* WRITE_FLASH, page, location and then exactly 16 bytes of payload,
\* whatever the length of the text, and waits for data before it reads the
\* acknowledgment.
C18_WriteSlotSixteenBytes ==
    (call.name = "write_flash" /\ ~call.burst) =>
        LET written == WrittenBytes(io)
            waits == {i \in 1 .. Len(io) : io[i].op = "wait"}
            reads == {j \in 1 .. Len(io) : io[j].op = "read"}
        IN /\ StartsWith(written, CommandBytes(call))
           /\ Len(written) = Len(CommandBytes(call)) + 16
           /\ waits # {}
           /\ reads # {}
           /\ \A j \in reads : \E i \in waits : i < j

(***************************************************************************)
(* Further properties of the I/O layer.                                    *)
(***************************************************************************)
\* C15: a send of an integer without a size that is outside burst mode
\* does not raise and makes one write, of the little-endian bytes of the
\* value in 1 byte up to 255, in 2 bytes from 256 up to 65535 and in 4
\* bytes from 65536 on; in burst mode those bytes are what it queues.
C15_AutoSizeSmallestWidth ==
    (call.name = "send" /\ call.arg.kind = "int" /\ ~call.arg.sized) =>
        LET v == call.arg.v
            w == IF v <= 255 THEN 1 ELSE IF v <= 65535 THEN 2 ELSE 4
        IN /\ call.raised = "none"
           /\ IF call.burst
              THEN /\ io = <<>>
                   /\ batch.sends # <<>>
                   /\ batch.sends[Len(batch.sends)] = LittleEndian(v, w)
              ELSE io = <<Write(LittleEndian(v, w))>>

\* C15 witness: 65536 was sent without a size and left in four bytes.
C15_Witness ==
    /\ call.name = "send"
    /\ ~call.arg.sized
    /\ call.arg.v = 65536
    /\ ~call.burst
    /\ io = <<Write(<<0, 0, 1, 0>>)>>

\* The acknowledgment codes.
AckCodes == {SUCCESS, ARGUMENT_ERROR, FAILED}

\* C16 (as claimed): every value get_ack returns is an acknowledgment code.
C16_AckIsACode ==
    (call.name = "get_ack") => call.ret \in AckCodes

\* C16 (amended): get_ack returns SUCCESS in burst mode; outside burst
\* mode it returns FAILED when no byte was read and otherwise the value of
\* the byte the peer sent, whatever it is: the value is an acknowledgment
\* code if and only if no byte came or the peer sent a code.
C16_AckIsCodeOrPeerByte ==
    (call.name = "get_ack") =>
        IF call.burst
        THEN call.ret = SUCCESS
        ELSE /\ Len(io) = 1
             /\ \/ io[1].data = <<>> /\ call.ret = FAILED
                \/ io[1].data = <<call.ret>> /\ call.ret \in 0 .. 255
             /\ (call.ret \in AckCodes) <=>
                    (io[1].data = <<>> \/ io[1].data[1] \in AckCodes)

\* C16 witness: the peer sent 255 and get_ack returned 255.
C16_Witness ==
    /\ call.name = "get_ack"
    /\ ~call.burst
    /\ io = <<Read(1, <<255>>)>>
    /\ call.ret = 255

\* C19: send_burst leaves burst mode off, the buffer empty and the counter
\* zero, whatever it found and whatever it read; the send that follows it
\* makes one write of its packet and queues nothing, and the get_ack that
\* follows it makes one read and defers nothing.
C19_SendBurstResets ==
    [][/\ (call'.name = "send_burst") =>
              /\ ~load_burst'
              /\ burst_buffer' = <<>>
              /\ input_queue_size' = 0
       /\ (call.name = "send_burst" /\ call'.name = "send"
              /\ call'.raised = "none") =>
              /\ io' = <<Write(ExpectedPacket(call'.arg))>>
              /\ burst_buffer' = <<>>
       /\ (call.name = "send_burst" /\ call'.name = "get_ack") =>
              /\ Len(io') = 1
              /\ io'[1].op = "read"
              /\ input_queue_size' = 0]_vars

\* C19 witness: send_burst was called with burst mode off on a buffer and a
\* counter left over, and read fewer acknowledgments than were pending.
C19_Witness ==
    /\ call.name = "send_burst"
    /\ ~call.burst
    /\ io[1].n > 0
    /\ io[2].n > 1
    /\ Len(io[2].data) < io[2].n
    /\ ~load_burst
    /\ burst_buffer = <<>>
    /\ input_queue_size = 0

\* C20: a send of an integer with a size outside {1, 2, 4} raises
\* ValueError, makes no transport call and leaves buffer, flag and counter
\* as they were.
C20_InvalidWidthChangesNothing ==
    [][(/\ call'.name = "send"
        /\ call'.arg.kind = "int"
        /\ call'.arg.sized
        /\ call'.arg.size \notin {1, 2, 4}) =>
            /\ call'.raised = "ValueError"
            /\ io' = <<>>
            /\ burst_buffer' = burst_buffer
            /\ load_burst' = load_burst
            /\ input_queue_size' = input_queue_size]_vars

\* C20 witness: a send with size 3 raised in burst mode, with bytes queued
\* and an acknowledgment deferred.
C20_Witness ==
    /\ call.name = "send"
    /\ call.arg.sized
    /\ call.arg.size = 3
    /\ call.raised = "ValueError"
    /\ load_burst
    /\ burst_buffer # <<>>
    /\ input_queue_size > 0

====
